---- MODULE Spec2Model ----
(***************************************************************************)
(* Auto-update polling engine of the film bot: the update_check task of    *)
(* cogs/auto_update.py, its evaluator _check_for_updates and its           *)
(* dispatcher _send_notification, over the subscription store of           *)
(* core/database.py.                                                       *)
(*                                                                         *)
(* Time is counted in whole hours since 00:00 UTC of 31 December, so that  *)
(* the date with ordinal n (1 = 1 January) starts at hour 24 * n.          *)
(***************************************************************************)
EXTENDS Integers, Sequences, FiniteSets, TLC

(* ------------------------------------------------------------------ *)
(* Dates: datetime.strptime(s, '%Y-%m-%d') and timedelta.days          *)
(* ------------------------------------------------------------------ *)

\* A date string as the API returns it.  form is "none" (the key is absent or
\* null), "empty" (''), "text" (a non-empty string that is no y-m-d triple) or
\* "ymd" (digits in the shape YYYY-MM-DD, whose month and day fields are mon, day).
NoneDate == [form |-> "none", mon |-> 0, day |-> 0]
EmptyDate == [form |-> "empty", mon |-> 0, day |-> 0]
TextDate == [form |-> "text", mon |-> 0, day |-> 0]
Ymd(m, d) == [form |-> "ymd", mon |-> m, day |-> d]

\* Python truthiness of an optional string: None and '' are falsy.
Truthy(s) == s.form \notin {"none", "empty"}

\* Days of each month of the (non-leap) year the model runs in.
DaysInMonth == <<31, 28, 31, 30, 31, 30, 31, 31, 30, 31, 30, 31>>

RECURSIVE DaysBefore(_)
\* Days of the year before the first day of month m.
DaysBefore(m) == IF m <= 1 THEN 0 ELSE DaysBefore(m - 1) + DaysInMonth[m - 1]

\* strptime accepts the string: the shape matches and the fields name a real day.
StrptimeOk(s) ==
    /\ s.form = "ymd"
    /\ s.mon \in 1..12
    /\ s.day \in 1..DaysInMonth[s.mon]

\* The datetime strptime returns (midnight of the day), in hours.
Strptime(s) == 24 * (DaysBefore(s.mon) + s.day)

\* timedelta.days of a difference of h hours: the floor of h / 24.
Days(h) == h \div 24

\* utcnow at hour hh of the date (m, d).
At(m, d, hh) == Strptime(Ymd(m, d)) + hh

(* ------------------------------------------------------------------ *)
(* Records of the program                                              *)
(* ------------------------------------------------------------------ *)

\* details.get('next_episode_to_air'): absent/null, or the episode's dict.
NoEpisode ==
    [present |-> FALSE, air_date |-> NoneDate, season_number |-> 0,
     episode_number |-> 0, name |-> ""]
Episode(d, sn, en, nm) ==
    [present |-> TRUE, air_date |-> d, season_number |-> sn, episode_number |-> en,
     name |-> nm]

\* The fields of a TMDB details payload that the evaluator reads.  title stands
\* for 'title' of a movie and 'name' of a series.
MovieDetails(t, rd, st) ==
    [title |-> t, release_date |-> rd, status |-> st,
     last_air_date |-> NoneDate, next_episode_to_air |-> NoEpisode]
TvDetails(t, lad, nxt) ==
    [title |-> t, release_date |-> NoneDate, status |-> "None",
     last_air_date |-> lad, next_episode_to_air |-> nxt]

\* The notification dict; type "none" is the empty dict, returned as None.
NoNotification ==
    [type |-> "none", date |-> NoneDate, title |-> "", episode |-> NoEpisode]
Notification(ty, d, t, ep) ==
    [type |-> ty, date |-> d, title |-> t, episode |-> ep]

\* What a call of the evaluator does: it returns a notification, or it raises.
Returned(n) == [raised |-> FALSE, notification |-> n]
Raised == [raised |-> TRUE, notification |-> NoNotification]

(* ------------------------------------------------------------------ *)
(* Update Evaluator: AutoUpdate._check_for_updates                      *)
(* ------------------------------------------------------------------ *)

\* The window with the interval rounded up to whole days:
\* 0 <= days <= ceil(interval / 24).
WithinIntervalCeil(days, interval) ==
    0 <= days /\ days <= (interval + 23) \div 24

\* The window without its first day: 0 < days.
WithinIntervalLate(days, interval) ==
    0 < days /\ days * 24 <= interval

\* 0 <= days <= (Config.UPDATE_INTERVAL_HOURS / 24): a true division, so the
\* comparison is days * 24 <= interval.
WithinInterval(days, interval) ==
    0 <= days /\ days * 24 <= interval

\* The window one day longer: 0 <= days <= 8.
WithinUpcomingEight(days) == 0 <= days /\ days <= 8

\* 0 <= days_until_release <= 7
WithinUpcoming(days) == 0 <= days /\ days <= 7

\* The movie branch, after the release date parsed.
MovieBranch(details, utcnow, interval) ==
    LET release_dt == Strptime(details.release_date)
        days_since_release == Days(utcnow - release_dt)
        days_until_release == Days(release_dt - utcnow)
    IN  IF details.status = "Released"
        THEN IF WithinInterval(days_since_release, interval)
             THEN Notification("release", details.release_date, details.title,
                               NoEpisode)
             ELSE NoNotification
        ELSE IF details.status \in {"Post Production", "In Production"}
        THEN IF WithinUpcoming(days_until_release)
             THEN Notification("upcoming", details.release_date, details.title,
                               NoEpisode)
             ELSE NoNotification
        ELSE NoNotification

\* The next-episode branch notifying on the day of the episode as well, and
\* without the episode's dict.
NextEpisodeBranchToday(details, utcnow) ==
    LET next_air_date == details.next_episode_to_air
        air_dt == Strptime(next_air_date.air_date)
        days_until_air == Days(air_dt - utcnow)
    IN  IF days_until_air \in {0, 1}
        THEN Notification("new_episode", next_air_date.air_date, details.title,
                          NoEpisode)
        ELSE NoNotification

\* The next-episode branch, after the air date parsed.
NextEpisodeBranch(details, utcnow) ==
    LET next_air_date == details.next_episode_to_air
        air_dt == Strptime(next_air_date.air_date)
        days_until_air == Days(air_dt - utcnow)
    IN  IF days_until_air = 1
        THEN Notification("new_episode", next_air_date.air_date, details.title,
                          next_air_date)
        ELSE NoNotification

\* The last-air-date branch, after the date parsed.
LastAirBranch(details, utcnow, interval) ==
    LET last_dt == Strptime(details.last_air_date)
        days_since_air == Days(utcnow - last_dt)
    IN  IF WithinInterval(days_since_air, interval)
        THEN Notification("episode_aired", details.last_air_date, details.title,
                          NoEpisode)
        ELSE NoNotification

\* The evaluator with the two flags confused: either flag opens every branch.
check_for_updates_any_flag(subscription, details, utcnow, interval) ==
    LET flag == subscription.notify_on_release \/ subscription.notify_on_update
    IN  IF subscription.media_type = "movie"
        THEN IF Truthy(details.release_date) /\ flag
             THEN IF StrptimeOk(details.release_date)
                  THEN Returned(MovieBranch(details, utcnow, interval))
                  ELSE Raised
             ELSE Returned(NoNotification)
        ELSE IF details.next_episode_to_air.present /\ flag
        THEN IF Truthy(details.next_episode_to_air.air_date)
             THEN IF StrptimeOk(details.next_episode_to_air.air_date)
                  THEN Returned(NextEpisodeBranch(details, utcnow))
                  ELSE Raised
             ELSE Returned(NoNotification)
        ELSE IF Truthy(details.last_air_date) /\ flag
        THEN IF StrptimeOk(details.last_air_date)
             THEN Returned(LastAirBranch(details, utcnow, interval))
             ELSE Raised
        ELSE Returned(NoNotification)

\* AutoUpdate._check_for_updates: the notification it returns for a subscription
\* and the fetched details at utcnow, or the exception that leaves it.
check_for_updates(subscription, details, utcnow, interval) ==
    IF subscription.media_type = "movie"
    THEN IF Truthy(details.release_date) /\ subscription.notify_on_release
         THEN IF StrptimeOk(details.release_date)
              THEN Returned(MovieBranch(details, utcnow, interval))
              ELSE Raised
         ELSE Returned(NoNotification)
    ELSE IF subscription.media_type = "tv"
    THEN IF details.next_episode_to_air.present /\ subscription.notify_on_update
         THEN IF Truthy(details.next_episode_to_air.air_date)
              THEN IF StrptimeOk(details.next_episode_to_air.air_date)
                   THEN Returned(NextEpisodeBranch(details, utcnow))
                   ELSE Raised
              ELSE Returned(NoNotification)
         ELSE IF Truthy(details.last_air_date) /\ subscription.notify_on_update
         THEN IF StrptimeOk(details.last_air_date)
              THEN Returned(LastAirBranch(details, utcnow, interval))
              ELSE Raised
         ELSE Returned(NoNotification)
    ELSE Returned(NoNotification)

(* ------------------------------------------------------------------ *)
(* The store, the catalogue and the Poll Loop's state                   *)
(* ------------------------------------------------------------------ *)

GuildIds == {1, 2}
SubIds == {1, 2, 3}

\* Cycles the task runs, failures the environment injects and hours that pass
\* inside the cycles.
MaxCycles == 2
MaxFaults == 1
MaxElapse == 1

\* Config.UPDATE_INTERVAL_HOURS, its default.
UPDATE_INTERVAL_HOURS == 6

\* A null DateTime column, and an unset BigInteger column.
Null == -1
Unset == 0
CHANNEL_ID == 11
ROLE_ID == 12

\* The guild a subscription row belongs to.
GuildOf(s) == IF s <= 2 THEN 1 ELSE 2

\* 12:00 UTC of 31 January: the time the bot becomes ready.
StartTime == At(1, 31, 12)

VARIABLES
    now,                    \* datetime.utcnow(), in hours
    update_interval_hours,  \* Config.UPDATE_INTERVAL_HOURS
    db_guilds,              \* table guilds: id -> row
    db_subs,                \* table subscriptions: id -> row
    catalog,                \* TMDB: subscription id -> details of its tmdb_id
    pc,                     \* where update_check stands
    next_iteration,         \* when tasks.loop runs the next iteration
    guilds,                 \* update_check: the guild rows selected
    gi,                     \* index of guild_data in guilds
    subscriptions,          \* update_check: the rows get_subscriptions returned
    si,                     \* index of subscription in subscriptions
    notification,           \* update_check: what _check_for_updates returned
    cycle,                  \* iterations of update_check started so far
    faults,                 \* failures injected so far
    elapsed,                \* hours that passed inside iterations so far
    exc,                    \* the exception the last step logged, or "none"
    fetches,                \* subscription id -> metadata requests issued
    sent,                   \* subscription id -> type -> messages delivered
    dispatched,             \* subscription id -> messages delivered in this iteration
    outcome,                \* subscription id -> how its last handling ended
    ev,                     \* a call of the evaluator on its own
    sn,                     \* a call of the dispatcher on its own
    clock,                  \* datetime.now() of the TMDB clients, in ticks
    limiter,                \* client -> the fields of its TMDBRateLimiter
    task,                   \* task -> where its TMDBClient._request stands
    cmd                     \* command -> where its /subscribe or /unsubscribe stands

loopVars == <<pc, next_iteration, guilds, gi, subscriptions, si, notification>>
histVars == <<cycle, faults, elapsed, exc, fetches, sent, dispatched, outcome>>
callVars == <<sn, clock, limiter, task, cmd>>
vars == <<now, update_interval_hours, db_guilds, db_subs, catalog, loopVars,
          histVars, ev, callVars>>

NoteTypes == {"release", "upcoming", "new_episode", "episode_aired"}

GuildRow(g, enabled, chan, role) ==
    [id |-> g, auto_update_enabled |-> enabled, notification_channel_id |-> chan,
     notification_role_id |-> role]

\* A row as add_subscription creates it (both flags default to true), with the
\* flags as given.
SubRow(s, mt, nr, nu) ==
    [id |-> s, guild_id |-> GuildOf(s), tmdb_id |-> 600 + s, media_type |-> mt,
     last_checked |-> Null, notify_on_release |-> nr, notify_on_update |-> nu]

\* What a subscription is and what TMDB says of its item.
Scenario(mt, nr, nu, d) == [media_type |-> mt, nr |-> nr, nu |-> nu, details |-> d]

ReleasedToday ==
    Scenario("movie", TRUE, TRUE, MovieDetails("The Matrix", Ymd(1, 31), "Released"))
ReleasedLongAgo ==
    Scenario("movie", TRUE, TRUE, MovieDetails("Alien", Ymd(1, 29), "Released"))
ReleasedMuted ==
    Scenario("movie", FALSE, TRUE, MovieDetails("The Matrix", Ymd(1, 31), "Released"))
UpcomingSoon ==
    Scenario("movie", TRUE, TRUE, MovieDetails("Dune", Ymd(2, 5), "Post Production"))
MovieBadDate ==
    Scenario("movie", TRUE, TRUE, MovieDetails("Tenet", TextDate, "Released"))
EpisodeTomorrow ==
    Scenario("tv", TRUE, TRUE, TvDetails("Severance", Ymd(1, 24),
                                    Episode(Ymd(2, 2), 2, 3, "Who Is Alive?")))
EpisodeAired ==
    Scenario("tv", TRUE, TRUE, TvDetails("Andor", Ymd(1, 31), NoEpisode))
TvBadDate ==
    Scenario("tv", TRUE, TRUE, TvDetails("Lost", Ymd(2, 30), NoEpisode))

\* The scenarios each subscription is drawn from.
ScenariosOf(s) ==
    IF s = 1
    THEN {ReleasedToday, ReleasedLongAgo, ReleasedMuted, UpcomingSoon, MovieBadDate,
          EpisodeTomorrow, EpisodeAired, TvBadDate}
    ELSE IF s = 2 THEN {EpisodeTomorrow, MovieBadDate}
    ELSE {UpcomingSoon}

\* The idle task, before its first iteration.
LoopInit ==
    /\ pc = "idle"
    /\ guilds = <<>>
    /\ gi = 0
    /\ subscriptions = <<>>
    /\ si = 0
    /\ notification = NoNotification
    /\ cycle = 0
    /\ faults = 0
    /\ elapsed = 0
    /\ exc = "none"
    /\ fetches = [s \in SubIds |-> 0]
    /\ sent = [s \in SubIds |-> [t \in NoteTypes |-> 0]]
    /\ dispatched = [s \in SubIds |-> 0]
    /\ outcome = [s \in SubIds |-> "none"]

NoEval == [done |-> TRUE]

\* No dispatcher call is under way.
NoSend == [done |-> TRUE]

\* The cogs that own a TMDBClient, and so a TMDBRateLimiter, each.
Clients == {"auto_update", "subscriptions"}

\* The tasks that call a client's _request, and the client each of them uses.
Tasks == 1 .. 4
ClientOf(t) == IF t <= 3 THEN "subscriptions" ELSE "auto_update"

\* The unit of time of the limiters is the tick, 1 / rate seconds, and the unit
\* of allowance is 1 / period of a request, so that
\*   allowance += time_passed * (rate / period)   adds one unit per tick,
\*   one request (1.0)                            is period units,
\*   the cap (rate)                               is rate * period units,
\*   sleep_time = (1.0 - allowance) * (period / rate)   is period - allowance ticks,
\*   period seconds                               are period * rate ticks.
\* TMDBRateLimiter.__init__(rate, period) at tick current: a full allowance, and
\* the lock free (holder 0).  entries counts the callers that took the lock.
TMDBRateLimiter(rate, period, current) ==
    [rate |-> rate, period |-> period, allowance |-> rate * period,
     last_check |-> current, holder |-> 0, entries |-> 0]

\* A task that has not called _request.  entered and completed are the ticks at
\* which it took the lock and at which acquire returned to it (Null before that),
\* wake the tick at which its sleep ends; seq is its place among the callers
\* that took the lock.
IdleTask ==
    [pc |-> "idle", op |-> "none", entered |-> Null, seq |-> 0, sleep_time |-> 0,
     wake |-> Null, completed |-> Null]

\* The limiters just created and no task calling.
LimitersAtRest ==
    /\ clock = 0
    /\ limiter = [c \in Clients |-> TMDBRateLimiter(1, 1, 0)]
    /\ task = [t \in Tasks |-> IdleTask]

\* The invocations of the /subscribe and /unsubscribe commands that are in
\* progress at once.
Commands == {1, 2, 3}

\* An invocation that has not begun.  found is the id of the row the command's
\* select returned (Null when it returned none).
IdleCommand ==
    [pc |-> "idle", kind |-> "none", guild_id |-> Null, tmdb_id |-> Null,
     media_type |-> "none", found |-> Null, result |-> "none"]

NoCommands == [c \in Commands |-> IdleCommand]

\* The limiters and the dispatcher at rest, and no command in progress.
CallInit ==
    /\ sn = NoSend
    /\ LimitersAtRest
    /\ cmd = NoCommands

Init ==
    /\ now = StartTime
    /\ next_iteration = StartTime
    /\ update_interval_hours = UPDATE_INTERVAL_HOURS
    /\ \E en \in [GuildIds -> BOOLEAN] :
          /\ en # [g \in GuildIds |-> FALSE]
          /\ db_guilds = [g \in GuildIds |->
                            IF g = 1 THEN GuildRow(g, en[g], CHANNEL_ID, ROLE_ID)
                            ELSE GuildRow(g, en[g], Unset, Unset)]
    /\ \E sc \in [SubIds -> UNION {ScenariosOf(s) : s \in SubIds}] :
          /\ \A s \in SubIds : sc[s] \in ScenariosOf(s)
          /\ db_subs = [s \in SubIds |->
                          SubRow(s, sc[s].media_type, sc[s].nr, sc[s].nu)]
          /\ catalog = [s \in SubIds |-> sc[s].details]
    /\ LoopInit
    /\ ev = NoEval
    /\ CallInit

(* ------------------------------------------------------------------ *)
(* Poll Loop: AutoUpdate.update_check                                   *)
(* ------------------------------------------------------------------ *)

\* The comparison of the staleness check, the wrong way round.
IsStaleInverted(subscription, utcnow, interval) ==
    /\ subscription.last_checked # Null
    /\ utcnow - subscription.last_checked > interval

\* The subscription is skipped: last_checked is set and less than the interval ago.
IsStale(subscription, utcnow, interval) ==
    /\ subscription.last_checked # Null
    /\ utcnow - subscription.last_checked < interval

\* select(Guild).where(Guild.auto_update_enabled == True), in id order.
\* Every guild row, whatever its flag.
AllGuilds == [g \in 1..Cardinality(GuildIds) |-> db_guilds[g]]

EnabledGuilds ==
    LET all == [g \in 1..Cardinality(GuildIds) |-> db_guilds[g]]
        Enabled(row) == row.auto_update_enabled
    IN  SelectSeq(all, Enabled)

\* The store of subscriptions is a function from the ids of the rows that exist
\* to the rows.  The largest id in use (0 in an empty store).
MaxId(db) ==
    IF DOMAIN db = {} THEN 0
    ELSE CHOOSE i \in DOMAIN db : \A j \in DOMAIN db : j <= i

\* Database.get_subscriptions(guild_id): the guild's rows, in id order.
get_subscriptions(guild_id) ==
    LET ids == [i \in 1 .. MaxId(db_subs) |-> i]
        Mine(i) == i \in DOMAIN db_subs /\ db_subs[i].guild_id = guild_id
        mine == SelectSeq(ids, Mine)
    IN  [k \in 1 .. Len(mine) |-> db_subs[mine[k]]]

guild_data == guilds[gi]
subscription == subscriptions[si]

Running == pc # "idle"
CanFault == faults < MaxFaults

\* The loop moves on to the next subscription of the list.
NextSubscription ==
    /\ pc' = "sub"
    /\ si' = si + 1
    /\ notification' = NoNotification
    /\ UNCHANGED <<next_iteration, guilds, gi, subscriptions>>

\* The loop moves on to the next guild.
NextGuild ==
    /\ pc' = "guild"
    /\ gi' = gi + 1
    /\ subscriptions' = <<>>
    /\ si' = 0
    /\ notification' = NoNotification
    /\ UNCHANGED <<next_iteration, guilds>>

\* An exception of a subscription's handling that is not caught there: it ends
\* the handling of the whole guild.
SubscriptionErrorPropagates(kind) ==
    /\ exc' = kind
    /\ outcome' = [outcome EXCEPT ![subscription.id] = kind]
    /\ NextGuild

\* except Exception around one subscription: log, continue.
SubscriptionError(kind) ==
    /\ exc' = kind
    /\ outcome' = [outcome EXCEPT ![subscription.id] = kind]
    /\ NextSubscription

\* except Exception around one guild: log, continue.
GuildError ==
    /\ exc' = "guild"
    /\ NextGuild

\* tasks.loop starts an iteration at its scheduled time; the body selects the
\* guilds whose auto-update is enabled.
StartCycle ==
    /\ pc = "idle"
    /\ cycle < MaxCycles
    /\ now' = IF now < next_iteration THEN next_iteration ELSE now
    /\ next_iteration' = next_iteration + update_interval_hours
    /\ cycle' = cycle + 1
    /\ exc' = "none"
    /\ pc' = "guild"
    /\ guilds' = EnabledGuilds
    /\ gi' = 1
    /\ dispatched' = [s \in SubIds |-> 0]
    /\ UNCHANGED <<subscriptions, si, notification>>
    /\ UNCHANGED <<update_interval_hours, db_guilds, db_subs, catalog, faults,
                   elapsed, fetches, sent, outcome, ev, callVars>>

\* The cog is reloaded while the task is idle: cog_unload cancels the task and
\* __init__ starts a new one, whose first iteration is due at once.
Restart ==
    /\ pc = "idle"
    /\ cycle >= 1
    /\ cycle < MaxCycles
    /\ next_iteration > now
    /\ next_iteration' = now
    /\ UNCHANGED <<now, update_interval_hours, db_guilds, db_subs, catalog, pc,
                   guilds, gi, subscriptions, si, notification, histVars, ev, callVars>>

\* The query for the guilds raises: the outermost handler logs it and the
\* iteration is over.
StartCycleFails ==
    /\ pc = "idle"
    /\ cycle < MaxCycles
    /\ CanFault
    /\ now' = IF now < next_iteration THEN next_iteration ELSE now
    /\ next_iteration' = next_iteration + update_interval_hours
    /\ cycle' = cycle + 1
    /\ faults' = faults + 1
    /\ exc' = "cycle"
    /\ dispatched' = [s \in SubIds |-> 0]
    /\ UNCHANGED <<pc, guilds, gi, subscriptions, si, notification>>
    /\ UNCHANGED <<update_interval_hours, db_guilds, db_subs, catalog, elapsed,
                   fetches, sent, outcome, ev, callVars>>

\* Every guild was handled: the iteration logs its total and ends.
CycleEnd ==
    /\ pc = "guild"
    /\ gi > Len(guilds)
    /\ pc' = "idle"
    /\ guilds' = <<>>
    /\ gi' = 0
    /\ exc' = "none"
    /\ UNCHANGED <<next_iteration, subscriptions, si, notification>>
    /\ UNCHANGED <<now, update_interval_hours, db_guilds, db_subs, catalog, cycle,
                   faults, elapsed, fetches, sent, dispatched, outcome, ev, callVars>>

\* bot.get_guild finds no guild (the bot is no longer in it): continue.
GuildMissing ==
    /\ pc = "guild"
    /\ gi <= Len(guilds)
    /\ CanFault
    /\ faults' = faults + 1
    /\ exc' = "none"
    /\ NextGuild
    /\ UNCHANGED <<now, update_interval_hours, db_guilds, db_subs, catalog, cycle,
                   elapsed, fetches, sent, dispatched, outcome, ev, callVars>>

\* get_subscriptions raises: the guild's handler logs it and continues.
LoadSubscriptionsFails ==
    /\ pc = "guild"
    /\ gi <= Len(guilds)
    /\ CanFault
    /\ faults' = faults + 1
    /\ GuildError
    /\ UNCHANGED <<now, update_interval_hours, db_guilds, db_subs, catalog, cycle,
                   elapsed, fetches, sent, dispatched, outcome, ev, callVars>>

\* get_subscriptions returns the guild's rows; a guild without rows is skipped.
LoadSubscriptions ==
    /\ pc = "guild"
    /\ gi <= Len(guilds)
    /\ exc' = "none"
    /\ LET rows == get_subscriptions(guild_data.id)
       IN  IF rows = <<>>
           THEN NextGuild
           ELSE /\ pc' = "sub"
                /\ subscriptions' = rows
                /\ si' = 1
                /\ UNCHANGED <<next_iteration, guilds, gi, notification>>
    /\ UNCHANGED <<now, update_interval_hours, db_guilds, db_subs, catalog, cycle,
                   faults, elapsed, fetches, sent, dispatched, outcome, ev, callVars>>

\* The guild's subscriptions were all handled.
GuildDone ==
    /\ pc = "sub"
    /\ si > Len(subscriptions)
    /\ exc' = "none"
    /\ NextGuild
    /\ UNCHANGED <<now, update_interval_hours, db_guilds, db_subs, catalog, cycle,
                   faults, elapsed, fetches, sent, dispatched, outcome, ev, callVars>>

\* The staleness check: a subscription checked less than the interval ago is
\* skipped.
SkipStale ==
    /\ pc = "sub"
    /\ si <= Len(subscriptions)
    /\ IsStale(subscription, now, update_interval_hours)
    /\ exc' = "none"
    /\ outcome' = [outcome EXCEPT ![subscription.id] = "skipped"]
    /\ NextSubscription
    /\ UNCHANGED <<now, update_interval_hours, db_guilds, db_subs, catalog, cycle,
                   faults, elapsed, fetches, sent, dispatched, ev, callVars>>

\* The details of all the subscriptions still to come are requested at once, as
\* a gather over the guild's list would.
RequestDetailsAhead ==
    /\ pc = "sub"
    /\ si <= Len(subscriptions)
    /\ ~IsStale(subscription, now, update_interval_hours)
    /\ pc' = "fetch"
    /\ fetches' = [s \in SubIds |->
                     IF \E i \in si .. Len(subscriptions) : subscriptions[i].id = s
                     THEN fetches[s] + 1 ELSE fetches[s]]
    /\ exc' = "none"
    /\ UNCHANGED <<next_iteration, guilds, gi, subscriptions, si, notification>>
    /\ UNCHANGED <<now, update_interval_hours, db_guilds, db_subs, catalog, cycle,
                   faults, elapsed, sent, dispatched, outcome, ev, callVars>>

\* Otherwise the details are requested (get_movie_details or get_tv_details).
RequestDetails ==
    /\ pc = "sub"
    /\ si <= Len(subscriptions)
    /\ ~IsStale(subscription, now, update_interval_hours)
    /\ pc' = "fetch"
    /\ fetches' = [fetches EXCEPT ![subscription.id] = @ + 1]
    /\ exc' = "none"
    /\ UNCHANGED <<next_iteration, guilds, gi, subscriptions, si, notification>>
    /\ UNCHANGED <<now, update_interval_hours, db_guilds, db_subs, catalog, cycle,
                   faults, elapsed, sent, dispatched, outcome, ev, callVars>>

\* A failed request after which last_checked is written all the same, as a
\* write placed in a finally clause would.
FetchFailsAndWrites ==
    /\ pc = "fetch"
    /\ CanFault
    /\ faults' = faults + 1
    /\ db_subs' = [db_subs EXCEPT ![subscription.id].last_checked = now]
    /\ SubscriptionError("fetch")
    /\ UNCHANGED <<now, update_interval_hours, db_guilds, catalog, cycle, elapsed,
                   fetches, sent, dispatched, ev, callVars>>

\* The request fails (network, HTTP status, body): the subscription's handler
\* logs it and continues.
FetchFails ==
    /\ pc = "fetch"
    /\ CanFault
    /\ faults' = faults + 1
    /\ SubscriptionError("fetch")
    /\ UNCHANGED <<now, update_interval_hours, db_guilds, db_subs, catalog, cycle,
                   elapsed, fetches, sent, dispatched, ev, callVars>>

\* The details arrive and _check_for_updates runs on them: it raises (the
\* subscription's handler logs it and continues), or it returns a notification
\* to send, or it returns None and the write of last_checked is next.
FetchReturns ==
    /\ pc = "fetch"
    /\ LET details == catalog[subscription.id]
           r == check_for_updates(subscription, details, now, update_interval_hours)
       IN  IF r.raised
           THEN SubscriptionError("evaluate")
           ELSE /\ exc' = "none"
                /\ outcome' = outcome
                /\ notification' = r.notification
                /\ pc' = IF r.notification.type # "none" THEN "send" ELSE "write"
                /\ UNCHANGED <<next_iteration, guilds, gi, subscriptions, si>>
    /\ UNCHANGED <<now, update_interval_hours, db_guilds, db_subs, catalog, cycle,
                   faults, elapsed, fetches, sent, dispatched, ev, callVars>>

\* Config.NOTIFICATION_PING_ROLE, its default.
NOTIFICATION_PING_ROLE == TRUE

\* What the hosting runtime answers during one dispatch: whether the guild has a
\* system channel, whether get_channel and get_role resolve, whether send succeeds.
DispatchEnvs ==
    [system_channel : BOOLEAN, channel_resolves : BOOLEAN, role_resolves : BOOLEAN,
     send_ok : BOOLEAN, ping_role : BOOLEAN]

\* A dispatch whose exceptions are not caught: a failure leaves the message
\* unsent and raises.
send_notification_raises(gd, env) ==
    LET channel ==
            IF gd.notification_channel_id = Unset
            THEN IF env.system_channel THEN "system" ELSE "none"
            ELSE IF env.channel_resolves THEN "configured" ELSE "none"
    IN  [delivered |-> channel # "none" /\ env.send_ok,
         channel |-> channel,
         mention |-> FALSE,
         raised |-> ~(channel # "none" /\ env.send_ok)]

\* A dispatch that mentions the configured role without resolving it.
send_notification_mentions_unresolved(gd, env) ==
    LET channel ==
            IF gd.notification_channel_id = Unset
            THEN IF env.system_channel THEN "system" ELSE "none"
            ELSE IF env.channel_resolves THEN "configured" ELSE "none"
        mention ==
            /\ gd.notification_role_id # Unset
            /\ env.ping_role
    IN  [delivered |-> channel # "none" /\ env.send_ok,
         channel |-> channel,
         mention |-> channel # "none" /\ mention,
         raised |-> FALSE]

\* AutoUpdate._send_notification: the channel it resolves, whether the message is
\* delivered, whether it mentions the role, and whether an exception leaves it.
send_notification(gd, env) ==
    LET channel ==
            IF gd.notification_channel_id = Unset
            THEN IF env.system_channel THEN "system" ELSE "none"
            ELSE IF env.channel_resolves THEN "configured" ELSE "none"
        mention ==
            /\ gd.notification_role_id # Unset
            /\ env.ping_role
            /\ env.role_resolves
    IN  [delivered |-> channel # "none" /\ env.send_ok,
         channel |-> channel,
         mention |-> channel # "none" /\ mention,
         raised |-> FALSE]

\* A dispatch that is repeated after a delivery: the loop stays at the send.
SendRepeats ==
    /\ pc = "send"
    /\ \E env \in DispatchEnvs :
          LET r == send_notification(guild_data, env)
          IN  /\ r.delivered \/ CanFault
              /\ faults' = IF r.delivered THEN faults ELSE faults + 1
              /\ sent' = IF r.delivered
                         THEN [sent EXCEPT ![subscription.id][notification.type] = @ + 1]
                         ELSE sent
              /\ dispatched' = IF r.delivered
                               THEN [dispatched EXCEPT ![subscription.id] = @ + 1]
                               ELSE dispatched
              /\ exc' = IF r.delivered THEN "none" ELSE "dispatch_logged"
              /\ pc' = IF r.delivered THEN "send" ELSE "write"
    /\ UNCHANGED <<now, update_interval_hours, db_guilds, db_subs, catalog, cycle,
                   elapsed, fetches, outcome, ev, callVars, next_iteration, guilds,
                   gi, subscriptions, si, notification>>

\* The notification is dispatched.  Whatever happens inside _send_notification,
\* the loop goes on to the write of last_checked, unless an exception leaves it.
Send ==
    /\ pc = "send"
    /\ \E env \in DispatchEnvs :
          LET r == send_notification(guild_data, env)
          IN  /\ r.delivered \/ CanFault
              /\ faults' = IF r.delivered THEN faults ELSE faults + 1
              /\ sent' = IF r.delivered
                         THEN [sent EXCEPT ![subscription.id][notification.type] = @ + 1]
                         ELSE sent
              /\ dispatched' = IF r.delivered
                               THEN [dispatched EXCEPT ![subscription.id] = @ + 1]
                               ELSE dispatched
              /\ IF r.raised
                 THEN SubscriptionError("dispatch")
                 ELSE /\ exc' = IF r.delivered THEN "none" ELSE "dispatch_logged"
                      /\ outcome' = outcome
                      /\ pc' = "write"
                      /\ UNCHANGED <<next_iteration, guilds, gi, subscriptions, si,
                                     notification>>
    /\ UNCHANGED <<now, update_interval_hours, db_guilds, db_subs, catalog, cycle,
                   elapsed, fetches, ev, callVars>>

\* A write that inserts the row when the store no longer has it.
WriteLastCheckedUpserts ==
    /\ pc = "write"
    /\ db_subs' = [i \in DOMAIN db_subs \cup {subscription.id} |->
                     IF i = subscription.id
                     THEN [subscription EXCEPT !.last_checked = now]
                     ELSE db_subs[i]]
    /\ exc' = "none"
    /\ outcome' = [outcome EXCEPT ![subscription.id] =
                      IF subscription.id \in DOMAIN db_subs
                      THEN "written" ELSE "unmatched"]
    /\ NextSubscription
    /\ UNCHANGED <<now, update_interval_hours, db_guilds, catalog, cycle, faults,
                   elapsed, fetches, sent, dispatched, ev, callVars>>

\* update(Subscription).where(id == subscription.id).values(last_checked=utcnow()),
\* committed; then the 0.5 s pause and the next subscription.  The statement
\* changes the rows that match: none ("unmatched") when the row has been deleted.
WriteLastChecked ==
    /\ pc = "write"
    /\ db_subs' = IF subscription.id \in DOMAIN db_subs
                  THEN [db_subs EXCEPT ![subscription.id].last_checked = now]
                  ELSE db_subs
    /\ exc' = "none"
    /\ outcome' = [outcome EXCEPT ![subscription.id] =
                      IF subscription.id \in DOMAIN db_subs
                      THEN "written" ELSE "unmatched"]
    /\ NextSubscription
    /\ UNCHANGED <<now, update_interval_hours, db_guilds, catalog, cycle, faults,
                   elapsed, fetches, sent, dispatched, ev, callVars>>

\* The write raises: the subscription's handler logs it and continues.
WriteFails ==
    /\ pc = "write"
    /\ CanFault
    /\ faults' = faults + 1
    /\ SubscriptionError("write")
    /\ UNCHANGED <<now, update_interval_hours, db_guilds, db_subs, catalog, cycle,
                   elapsed, fetches, sent, dispatched, ev, callVars>>

\* Time passes while the task awaits the network, the dispatch or the store.
Elapse ==
    /\ pc \in {"fetch", "send", "write"}
    /\ elapsed < MaxElapse
    /\ now' = now + 1
    /\ elapsed' = elapsed + 1
    /\ UNCHANGED <<update_interval_hours, db_guilds, db_subs, catalog, loopVars,
                   cycle, faults, exc, fetches, sent, dispatched, outcome, ev, callVars>>

Next ==
    \/ StartCycle
    \/ StartCycleFails
    \/ Restart
    \/ CycleEnd
    \/ GuildMissing
    \/ LoadSubscriptionsFails
    \/ LoadSubscriptions
    \/ GuildDone
    \/ SkipStale
    \/ RequestDetails
    \/ FetchFails
    \/ FetchReturns
    \/ Send
    \/ WriteLastChecked
    \/ WriteFails
    \/ Elapse

Spec == Init /\ [][Next]_vars

\* A step of the iteration that is running.
LoopStep ==
    \/ CycleEnd
    \/ GuildMissing
    \/ LoadSubscriptionsFails
    \/ LoadSubscriptions
    \/ GuildDone
    \/ SkipStale
    \/ RequestDetails
    \/ FetchFails
    \/ FetchReturns
    \/ Send
    \/ WriteLastChecked
    \/ WriteFails


(* ------------------------------------------------------------------ *)
(* The evaluator on its own                                            *)
(* ------------------------------------------------------------------ *)

EvalDates ==
    {Ymd(1, 29), Ymd(1, 30), Ymd(1, 31), Ymd(2, 1), Ymd(2, 2), Ymd(2, 7), Ymd(2, 8),
     Ymd(2, 9), Ymd(2, 30), Ymd(13, 1), TextDate, EmptyDate, NoneDate}

EvalStatuses == {"Released", "Post Production", "In Production", "Rumored"}

EvalNows == {At(1, 31, 0), At(1, 31, 12), At(1, 31, 23), At(2, 1, 6)}

EvalIntervals == {6, 24, 30}

EvalMovies ==
    {MovieDetails("The Matrix", d, st) : d \in EvalDates, st \in EvalStatuses}

EvalSeries ==
    {TvDetails("Severance", d, NoEpisode) : d \in EvalDates}
    \cup {TvDetails("Severance", d, Episode(a, 2, 3, "Who Is Alive?")) :
             d \in {Ymd(1, 30), Ymd(1, 31), NoneDate}, a \in EvalDates}

EvalInputs ==
    {[done |-> FALSE, subscription |-> SubRow(1, mt, nr, nu), details |-> d,
      utcnow |-> t, interval |-> i, result |-> Returned(NoNotification)] :
        mt \in {"movie"}, nr \in BOOLEAN, nu \in BOOLEAN, d \in EvalMovies,
        t \in EvalNows, i \in EvalIntervals}
    \cup
    {[done |-> FALSE, subscription |-> SubRow(1, mt, nr, nu), details |-> d,
      utcnow |-> t, interval |-> i, result |-> Returned(NoNotification)] :
        mt \in {"tv"}, nr \in BOOLEAN, nu \in BOOLEAN, d \in EvalSeries,
        t \in EvalNows, i \in EvalIntervals}

EvalInit ==
    /\ ev \in EvalInputs
    /\ now = ev.utcnow
    /\ next_iteration = ev.utcnow
    /\ update_interval_hours = ev.interval
    /\ db_guilds = [g \in GuildIds |-> GuildRow(g, TRUE, Unset, Unset)]
    /\ db_subs = [s \in SubIds |-> SubRow(s, "movie", TRUE, TRUE)]
    /\ catalog = [s \in SubIds |-> ev.details]
    /\ LoopInit
    /\ CallInit

\* One call of _check_for_updates.
Evaluate ==
    /\ ~ev.done
    /\ ev' = [ev EXCEPT !.done = TRUE,
                        !.result = check_for_updates(ev.subscription, ev.details,
                                                     ev.utcnow, ev.interval)]
    /\ UNCHANGED <<now, update_interval_hours, db_guilds, db_subs, catalog,
                   loopVars, histVars, callVars>>

EvalNext == Evaluate

EvalSpec == EvalInit /\ [][EvalNext]_vars

(* ------------------------------------------------------------------ *)
(* The dispatcher on its own: AutoUpdate._send_notification            *)
(* ------------------------------------------------------------------ *)

\* The guild rows and the answers of the runtime a call is made with.
DispatchInputs ==
    {[done |-> FALSE, guild_data |-> GuildRow(g, TRUE, chan, role), env |-> e,
      result |-> [delivered |-> FALSE, channel |-> "none", mention |-> FALSE,
                  raised |-> FALSE]] :
        g \in GuildIds, chan \in {Unset, CHANNEL_ID}, role \in {Unset, ROLE_ID},
        e \in DispatchEnvs}

DispatchInit ==
    /\ now = StartTime
    /\ next_iteration = StartTime
    /\ update_interval_hours = UPDATE_INTERVAL_HOURS
    /\ sn \in DispatchInputs
    /\ db_guilds = [g \in GuildIds |-> sn.guild_data]
    /\ db_subs = [s \in SubIds |-> SubRow(s, "movie", TRUE, TRUE)]
    /\ catalog = [s \in SubIds |-> ReleasedToday.details]
    /\ LoopInit
    /\ ev = NoEval
    /\ LimitersAtRest
    /\ cmd = NoCommands

\* One call of _send_notification.
DispatchCall ==
    /\ ~sn.done
    /\ sn' = [sn EXCEPT !.done = TRUE,
                        !.result = send_notification(sn.guild_data, sn.env)]
    /\ UNCHANGED <<now, update_interval_hours, db_guilds, db_subs, catalog,
                   loopVars, histVars, ev, clock, limiter, task, cmd>>

DispatchNext == DispatchCall

DispatchSpec == DispatchInit /\ [][DispatchNext]_vars

(* ------------------------------------------------------------------ *)
(* TMDB client: TMDBRateLimiter.acquire and TMDBClient._request         *)
(* ------------------------------------------------------------------ *)

\* The last tick of the limiters' clock.
MaxClock == 4

\* (Config.API_RATE_LIMIT, Config.API_RATE_PERIOD): requests, seconds.
RateConfigs == {<<1, 1>>, <<2, 1>>, <<2, 2>>}

\* The public operation of the client that each task calls.
OpOf(t) ==
    IF t = 1 THEN "get_movie_details"
    ELSE IF t = 2 THEN "get_tv_details"
    ELSE IF t = 3 THEN "search_multi"
    ELSE "get_movie_details"

\* The tasks of a client are interchangeable: they call in the order of their
\* numbers, and asyncio.Lock hands the lock to its waiters in the order in which
\* they called.
Earlier(t) == {u \in Tasks : ClientOf(u) = ClientOf(t) /\ u < t}

\* One request (the 1.0 of the source) in units of allowance.
OneRequest(l) == l.period

\* period seconds in ticks.
PeriodTicks(l) == l.period * l.rate

\* The refill without its cap.
RefillUncapped(l, current) == l.allowance + (current - l.last_check)

\* allowance += time_passed * (rate / period), capped at rate.
Refill(l, current) ==
    LET time_passed == current - l.last_check
        allowance == l.allowance + time_passed
    IN  IF allowance > l.rate * l.period THEN l.rate * l.period ELSE allowance

\* A sleep of a whole period for a whole request: (1.0 - allowance) * period.
SleepTimePeriod(l, allowance) == (OneRequest(l) - allowance) * l.rate

\* sleep_time = (1.0 - allowance) * (period / rate), in ticks.
SleepTime(l, allowance) == OneRequest(l) - allowance

RateInit ==
    /\ now = StartTime
    /\ next_iteration = StartTime
    /\ update_interval_hours = UPDATE_INTERVAL_HOURS
    /\ db_guilds = [g \in GuildIds |-> GuildRow(g, TRUE, Unset, Unset)]
    /\ db_subs = [s \in SubIds |-> SubRow(s, "movie", TRUE, TRUE)]
    /\ catalog = [s \in SubIds |-> ReleasedToday.details]
    /\ LoopInit
    /\ ev = NoEval
    /\ sn = NoSend
    /\ clock = 0
    /\ \E cfg \in RateConfigs :
          limiter = [c \in Clients |-> TMDBRateLimiter(cfg[1], cfg[2], 0)]
    /\ task = [t \in Tasks |-> IdleTask]
    /\ cmd = NoCommands

rateFrame == <<now, update_interval_hours, db_guilds, db_subs, catalog, loopVars,
               histVars, ev, sn, cmd>>

\* Task t calls a public operation, which calls _request; _request reaches
\* `await self.rate_limiter.acquire()` and waits for the limiter's lock.
Request(t) ==
    /\ task[t].pc = "idle"
    /\ \A u \in Earlier(t) : task[u].pc # "idle"
    /\ task' = [task EXCEPT ![t].pc = "lock", ![t].op = OpOf(t)]
    /\ UNCHANGED <<clock, limiter, rateFrame>>

\* Task t takes the lock and runs acquire up to its return or to its sleep.
Acquire(t) ==
    LET c == ClientOf(t)
        l == limiter[c]
        allowance == Refill(l, clock)
        seq == l.entries + 1
    IN  /\ task[t].pc = "lock"
        /\ \A u \in Earlier(t) : task[u].pc # "lock"
        /\ l.holder = 0
        /\ IF allowance < OneRequest(l)
           THEN /\ limiter' = [limiter EXCEPT ![c].last_check = clock,
                                              ![c].allowance = allowance,
                                              ![c].entries = seq,
                                              ![c].holder = t]
                /\ task' = [task EXCEPT ![t].pc = "sleeping",
                                        ![t].entered = clock,
                                        ![t].seq = seq,
                                        ![t].sleep_time = SleepTime(l, allowance),
                                        ![t].wake = clock + SleepTime(l, allowance)]
           ELSE /\ limiter' = [limiter EXCEPT ![c].last_check = clock,
                                              ![c].allowance = allowance - OneRequest(l),
                                              ![c].entries = seq]
                /\ task' = [task EXCEPT ![t].pc = "acquired",
                                        ![t].entered = clock,
                                        ![t].seq = seq,
                                        ![t].completed = clock]
        /\ UNCHANGED <<clock, rateFrame>>

\* The sleep of task t is over (asyncio.sleep returns at its time or later):
\* allowance = 0.0, the lock is released and acquire returns.
Wake(t) ==
    LET c == ClientOf(t)
    IN  /\ task[t].pc = "sleeping"
        /\ clock >= task[t].wake
        /\ limiter' = [limiter EXCEPT ![c].allowance = 0, ![c].holder = 0]
        /\ task' = [task EXCEPT ![t].pc = "acquired", ![t].completed = clock,
                                ![t].wake = Null]
        /\ UNCHANGED <<clock, rateFrame>>

\* A GET that does not wait for acquire: issued as soon as _request is called.
GetUngated(t) ==
    /\ task[t].pc \in {"lock", "acquired"}
    /\ task' = [task EXCEPT ![t].pc = "get"]
    /\ UNCHANGED <<clock, limiter, rateFrame>>

\* acquire has returned to task t: _request builds the parameters and issues
\* session.get.
Get(t) ==
    /\ task[t].pc = "acquired"
    /\ task' = [task EXCEPT ![t].pc = "get"]
    /\ UNCHANGED <<clock, limiter, rateFrame>>

\* Time passes.
Tick ==
    /\ clock < MaxClock
    /\ clock' = clock + 1
    /\ UNCHANGED <<limiter, task, rateFrame>>

RateNext ==
    \/ \E t \in Tasks : Request(t)
    \/ \E t \in Tasks : Acquire(t)
    \/ \E t \in Tasks : Wake(t)
    \/ \E t \in Tasks : Get(t)
    \/ Tick

RateSpec == RateInit /\ [][RateNext]_vars

(* ------------------------------------------------------------------ *)
(* Properties of the Poll Loop                                         *)
(* ------------------------------------------------------------------ *)

NoneSent == [t \in NoteTypes |-> 0]

\* The loop stands at a subscription of its list, before the staleness check.
AtSubscription == pc = "sub" /\ si \in 1..Len(subscriptions)

\* C1: whenever the loop reaches a subscription whose last_checked is set and
\* less than update_interval before now, its step issues no metadata request,
\* evaluates nothing, dispatches nothing and writes no last_checked: it only
\* moves on to the next subscription.
C1_StalenessSkip ==
    [][(/\ AtSubscription
        /\ subscriptions[si].last_checked # Null
        /\ now - subscriptions[si].last_checked < update_interval_hours)
       => /\ fetches' = fetches
          /\ sent' = sent
          /\ db_subs' = db_subs
          /\ notification' = NoNotification
          /\ pc' = "sub"
          /\ si' = si + 1
          /\ subscriptions' = subscriptions]_vars

\* A second cycle has passed the first subscription of guild 1, which was
\* checked less than the interval ago: it was requested once, in the first cycle.
C1_Witness ==
    /\ cycle = 2
    /\ pc = "sub"
    /\ si = 2
    /\ subscriptions[1].last_checked # Null
    /\ now - subscriptions[1].last_checked < update_interval_hours
    /\ outcome[subscriptions[1].id] = "skipped"
    /\ fetches[subscriptions[1].id] = 1

\* C2: a guild whose auto_update_enabled is false is never among the guilds of
\* a cycle; no metadata is requested for its subscriptions, nothing is
\* dispatched for them and their last_checked stays as it was (null).
C2_DisabledGuildSkipped ==
    \A s \in SubIds :
        ~db_guilds[GuildOf(s)].auto_update_enabled
        => /\ fetches[s] = 0
           /\ sent[s] = NoneSent
           /\ db_subs[s].last_checked = Null
           /\ outcome[s] = "none"
           /\ \A i \in 1..Len(guilds) : guilds[i].id # GuildOf(s)

\* Two cycles ran to their end with guild 2 disabled: guild 1 was polled.
C2_Witness ==
    /\ cycle = 2
    /\ pc = "idle"
    /\ ~db_guilds[2].auto_update_enabled
    /\ fetches[1] >= 1
    /\ db_subs[2].last_checked # Null
    /\ fetches[3] = 0

\* The scenario of C3: guild 1 is enabled and its first subscription is a movie
\* with notify_on_release whose details say 'Released' today; nothing has failed.
C3_Scenario ==
    /\ db_guilds[1].auto_update_enabled
    /\ db_subs[1].media_type = "movie"
    /\ db_subs[1].notify_on_release
    /\ catalog[1].status = "Released"
    /\ StrptimeOk(catalog[1].release_date)
    /\ Days(now - Strptime(catalog[1].release_date)) = 0
    /\ faults = 0

\* The first cycle, step by step: at the dispatch the details were requested
\* once and the outcome is a release titled with the movie's title; at the write
\* one release message was delivered and last_checked is still null; at the end
\* last_checked is set to the time of the write.  A second request is issued
\* only when the interval has passed since last_checked.
C3_States ==
    C3_Scenario =>
        /\ (cycle = 1 /\ pc = "send" /\ subscription.id = 1)
           => /\ fetches[1] = 1
              /\ notification.type = "release"
              /\ notification.title = catalog[1].title
              /\ sent[1] = NoneSent
              /\ db_subs[1].last_checked = Null
        /\ (cycle = 1 /\ pc = "write" /\ subscription.id = 1)
           => /\ fetches[1] = 1
              /\ sent[1] = [NoneSent EXCEPT !["release"] = 1]
              /\ db_subs[1].last_checked = Null
        /\ (cycle = 1 /\ pc = "idle")
           => /\ fetches[1] = 1
              /\ sent[1] = [NoneSent EXCEPT !["release"] = 1]
              /\ db_subs[1].last_checked \in StartTime..now
              /\ outcome[1] = "written"
        /\ (cycle = 2 /\ fetches[1] = 2 /\ pc = "fetch" /\ subscription.id = 1)
           => now - db_subs[1].last_checked >= update_interval_hours

\* The second cycle: while less than the interval has passed since last_checked,
\* no step requests the details, dispatches or writes last_checked.
C3_SecondCycle ==
    (/\ C3_Scenario
     /\ cycle = 2
     /\ db_subs[1].last_checked # Null
     /\ now - db_subs[1].last_checked < update_interval_hours)
    => /\ fetches'[1] = fetches[1]
       /\ sent'[1] = sent[1]
       /\ db_subs'[1] = db_subs[1]

\* C3: the end-to-end scenario of two cycles: the first requests the details
\* once, dispatches exactly one release message and then writes last_checked;
\* a second cycle run before update_interval has passed requests nothing,
\* dispatches nothing and leaves last_checked unchanged.
C3_TwoCycles == []C3_States /\ [][C3_SecondCycle]_vars

\* The second cycle, started by a reload right after the first, has ended: one
\* request, one release message, and the subscription was skipped.
C3_Witness ==
    /\ C3_Scenario
    /\ cycle = 2
    /\ pc = "idle"
    /\ fetches[1] = 1
    /\ sent[1] = [NoneSent EXCEPT !["release"] = 1]
    /\ outcome[1] = "skipped"
    /\ now - db_subs[1].last_checked < update_interval_hours

\* Every cycle so far started exactly update_interval after the one before (no
\* reload in between): the next one is due at StartTime + cycle * interval; and
\* nothing has failed.
Spaced ==
    /\ next_iteration = StartTime + cycle * update_interval_hours
    /\ faults = 0

\* C4: a movie release is reported once: over cycles spaced update_interval
\* apart, with the fetched status 'Released' and release_date unchanged, at most
\* one 'release' message is delivered for a subscription.
C4_ReleaseReportedOnce ==
    Spaced => \A s \in SubIds : sent[s]["release"] <= 1

\* C5: no duplicate notifications per condition: over cycles spaced
\* update_interval apart, with the fetched details unchanged, at most one
\* 'upcoming' message per (movie, release_date) and at most one 'new_episode'
\* message per (series, next air date) is delivered for a subscription.
C5_OncePerCondition ==
    Spaced => \A s \in SubIds : sent[s]["upcoming"] <= 1 /\ sent[s]["new_episode"] <= 1

\* A step of a subscription's handling that ends in an exception.
SubscriptionFails ==
    /\ pc \in {"fetch", "send", "write"}
    /\ exc' \in {"fetch", "evaluate", "dispatch", "write"}

\* A step of a guild's handling, outside its subscriptions, that ends in an
\* exception.
GuildFails == pc = "guild" /\ pc' = "guild" /\ gi' # gi /\ exc' = "guild"

\* After a failed subscription the loop stands at the next subscription of the
\* same list of the same guild; after a failed guild it stands at the next guild
\* of the same list.
C6_Isolated ==
    /\ SubscriptionFails
       => /\ pc' = "sub"
          /\ si' = si + 1
          /\ subscriptions' = subscriptions
          /\ gi' = gi
          /\ guilds' = guilds
    /\ GuildFails
       => /\ gi' = gi + 1
          /\ guilds' = guilds

\* How far the running cycle is from its end: the guilds still to come, and
\* within the guild the subscriptions still to come and the stage of the present
\* one (check, request, dispatch, write).
StepsOfGuild == 4 * Cardinality(SubIds) + 1
Remaining ==
    LET stage == CASE pc = "sub" -> 4
                   [] pc = "fetch" -> 3
                   [] pc = "send" -> 2
                   [] pc = "write" -> 1
                   [] OTHER -> 0
        within == IF pc = "guild" THEN StepsOfGuild
                  ELSE 4 * (Len(subscriptions) - si) + stage
    IN  IF pc = "idle" THEN 0
        ELSE (Len(guilds) + 1 - gi) * (StepsOfGuild + 1) + within

\* A running cycle can always take a step, and each of its steps brings it
\* nearer to its end.
C6_Progress ==
    /\ Running => ENABLED LoopStep
    /\ Running => Remaining > 0
    /\ (Running /\ loopVars' # loopVars) => Remaining' < Remaining

\* C6: failure isolation: an exception in one subscription's handling leaves
\* the later subscriptions of the guild to be handled, an exception in one
\* guild's handling leaves the later guilds to be handled, and every cycle that
\* starts reaches its end (it is never stuck, and its distance to the end
\* decreases with each of its steps, failed or not).
C6_FailureIsolation == [][C6_Isolated /\ C6_Progress]_vars

\* A cycle has ended in which the request for the first subscription failed and
\* the two later ones, one of the same guild and one of the next, were handled
\* to the write.
C6_Witness ==
    /\ cycle = 1
    /\ pc = "idle"
    /\ outcome[1] = "fetch"
    /\ outcome[2] \in {"written", "evaluate"}
    /\ outcome[3] = "written"

\* The store's last_checked of subscription s is less than the interval old.
StaleInStore(s) ==
    /\ db_subs[s].last_checked # Null
    /\ now - db_subs[s].last_checked < update_interval_hours

\* The step in which the request fails dispatches nothing and writes nothing;
\* and when the loop next reaches a subscription whose last handling ended in a
\* failed request, its step requests the details again.
C7_Step ==
    /\ (pc = "fetch" /\ exc' = "fetch")
       => /\ sent' = sent
          /\ db_subs' = db_subs
          /\ pc' = "sub"
    /\ (AtSubscription /\ outcome[subscription.id] = "fetch" /\ loopVars' # loopVars)
       => /\ pc' = "fetch"
          /\ fetches'[subscription.id] = fetches[subscription.id] + 1

\* A subscription whose last handling ended in a failed request is not stale,
\* neither in the store nor in the list the loop has loaded.
C7_NotStale ==
    /\ \A s \in SubIds : outcome[s] = "fetch" => ~StaleInStore(s)
    /\ (AtSubscription /\ outcome[subscription.id] = "fetch")
       => \/ subscription.last_checked = Null
          \/ now - subscription.last_checked >= update_interval_hours

\* C7: when the metadata request for a subscription fails, nothing is
\* dispatched for it and its last_checked is left unchanged, so it is not
\* staleness-skipped and is requested again in the very next cycle.
C7_FetchFailureRetried == []C7_NotStale /\ [][C7_Step]_vars

\* In the second cycle the details of subscription 1 are requested again, its
\* request having failed in the first: nothing was sent or written for it.
C7_Witness ==
    /\ cycle = 2
    /\ pc = "fetch"
    /\ subscription.id = 1
    /\ outcome[1] = "fetch"
    /\ fetches[1] = 2
    /\ sent[1] = NoneSent
    /\ db_subs[1].last_checked = Null

\* The step of the dispatch leads to the write for the same subscription,
\* whether the message was delivered or not, and raises nothing; the write that
\* follows a failed dispatch sets last_checked to now and the loop goes on to
\* the next subscription.
C8_Step ==
    /\ (pc = "send" /\ pc' # "send")
       => /\ pc' = "write"
          /\ exc' \in {"none", "dispatch_logged"}
          /\ si' = si
          /\ subscriptions' = subscriptions
          /\ gi' = gi
          /\ db_subs' = db_subs
    /\ (pc = "write" /\ exc = "dispatch_logged" /\ pc' # "write" /\ exc' = "none")
       => /\ db_subs'[subscription.id].last_checked = now
          /\ pc' = "sub"
          /\ si' = si + 1

\* C8: a failed dispatch (no channel resolves, or the send raises) never
\* propagates out of _send_notification: the loop still writes last_checked =
\* now for the subscription and continues with the next one.
C8_DispatchFailureContained ==
    [](exc = "dispatch_logged" => pc = "write") /\ [][C8_Step]_vars

\* Subscription 3, whose details always warrant an 'upcoming' message, was
\* handled to the write in the first cycle although no message was delivered.
C8_Witness ==
    /\ cycle = 1
    /\ fetches[3] = 1
    /\ outcome[3] = "written"
    /\ sent[3] = NoneSent
    /\ db_subs[3].last_checked # Null

\* C9: date parsing failures do not raise past the evaluator: for a malformed
\* release_date, air_date or last_air_date _check_for_updates returns None, so
\* no subscription's handling ends in an exception of the evaluation (and the
\* loop goes on to write last_checked).
C9_ParseFailureIsNoNotification ==
    \A s \in SubIds : outcome[s] # "evaluate"

(* ------------------------------------------------------------------ *)
(* Properties of the evaluator                                         *)
(* ------------------------------------------------------------------ *)

\* The evaluator was called for a movie subscription with notify_on_release on
\* details with status 'Released' and a release_date that parses.
C10_Case ==
    /\ ev.done
    /\ ev.subscription.media_type = "movie"
    /\ ev.subscription.notify_on_release
    /\ ev.details.status = "Released"
    /\ StrptimeOk(ev.details.release_date)

\* (now - release_date).days of the call.
C10_Days == Days(ev.utcnow - Strptime(ev.details.release_date))

\* C10 as stated: a 'release' outcome if and only if
\* 0 <= (now - release_date).days <= ceil(update_interval_hours / 24).
C10_ReleaseWindowCeil ==
    C10_Case
    => (ev.result.notification.type = "release"
        <=> (0 <= C10_Days /\ C10_Days <= (ev.interval + 23) \div 24))

\* C10, amended: a 'release' outcome if and only if
\* 0 <= (now - release_date).days <= update_interval_hours / 24, the quotient
\* not rounded; with the default interval of 6 hours, only for days = 0.
C10_ReleaseWindow ==
    C10_Case
    => /\ ~ev.result.raised
       /\ ev.result.notification.type \in {"release", "none"}
       /\ ev.result.notification.type = "release"
          <=> (0 <= C10_Days /\ 24 * C10_Days <= ev.interval)
       /\ ev.interval = UPDATE_INTERVAL_HOURS
          => (ev.result.notification.type = "release" <=> C10_Days = 0)

\* With the default interval, a movie released yesterday yields no outcome.
C10_Witness ==
    /\ C10_Case
    /\ ev.interval = UPDATE_INTERVAL_HOURS
    /\ C10_Days = 1
    /\ ev.result.notification.type = "none"

\* The evaluator was called for a movie subscription with notify_on_release on
\* details in (post) production with a release_date that parses.
C11_Case ==
    /\ ev.done
    /\ ev.subscription.media_type = "movie"
    /\ ev.subscription.notify_on_release
    /\ ev.details.status \in {"Post Production", "In Production"}
    /\ StrptimeOk(ev.details.release_date)

\* (release_date - now).days of the call: the whole-day floor.
C11_Days == Days(Strptime(ev.details.release_date) - ev.utcnow)

\* C11: for a movie in (post) production with notify_on_release, the evaluator
\* emits 'upcoming' when the release is 7 whole days ahead and nothing when it is
\* 8 days ahead or already past; in all, exactly when 0 <= days <= 7, the days
\* being the floor of (release_date at 00:00 - now).
C11_UpcomingBoundary ==
    C11_Case
    => /\ ~ev.result.raised
       /\ C11_Days = 7 => ev.result.notification.type = "upcoming"
       /\ C11_Days = 8 => ev.result.notification = NoNotification
       /\ C11_Days < 0 => ev.result.notification = NoNotification
       /\ ev.result.notification.type = "upcoming"
          <=> (0 <= C11_Days /\ C11_Days <= 7)
       /\ ev.result.notification.type = "upcoming"
          => ev.result.notification.date = ev.details.release_date

\* At noon, a release whose day count is 7 yields 'upcoming'.
C11_Witness ==
    /\ C11_Case
    /\ C11_Days = 7
    /\ ev.utcnow = At(1, 31, 12)
    /\ ev.result.notification.type = "upcoming"

\* The evaluator was called for a series subscription with notify_on_update on
\* details with a next episode whose air_date parses.
C12_Case ==
    /\ ev.done
    /\ ev.subscription.media_type = "tv"
    /\ ev.subscription.notify_on_update
    /\ ev.details.next_episode_to_air.present
    /\ StrptimeOk(ev.details.next_episode_to_air.air_date)

\* (air_date - now).days of the call.
C12_Days == Days(Strptime(ev.details.next_episode_to_air.air_date) - ev.utcnow)

\* C12: for a series with notify_on_update, the evaluator emits 'new_episode',
\* carrying the next episode's season number, episode number and name, exactly
\* when (next air date - now).days = 1; at 0 or 2 days it emits nothing.
C12_NewEpisodeLookahead ==
    C12_Case
    => /\ ~ev.result.raised
       /\ ev.result.notification.type = "new_episode" <=> C12_Days = 1
       /\ C12_Days = 1
          => /\ ev.result.notification.episode.season_number
                  = ev.details.next_episode_to_air.season_number
             /\ ev.result.notification.episode.episode_number
                  = ev.details.next_episode_to_air.episode_number
             /\ ev.result.notification.episode.name
                  = ev.details.next_episode_to_air.name
             /\ ev.result.notification.date = ev.details.next_episode_to_air.air_date
       /\ C12_Days \in {0, 2} => ev.result.notification = NoNotification

\* An episode one day ahead is announced with its numbers and its name.
C12_Witness ==
    /\ C12_Case
    /\ C12_Days = 1
    /\ ev.result.notification.type = "new_episode"
    /\ ev.result.notification.episode.season_number = 2
    /\ ev.result.notification.episode.episode_number = 3
    /\ ev.result.notification.episode.name = "Who Is Alive?"

\* The new-episode rule fired in the call.
C13_NewEpisodeFired ==
    /\ ev.details.next_episode_to_air.present
    /\ StrptimeOk(ev.details.next_episode_to_air.air_date)
    /\ C12_Days = 1

\* (now - last_air_date).days of the call.
C13_Days == Days(ev.utcnow - Strptime(ev.details.last_air_date))

\* C13: for a series with notify_on_update, whenever the new-episode rule did
\* not fire (no next episode, or one whose air date is not exactly 1 day away)
\* and last_air_date exists with
\* 0 <= (now - last_air_date).days <= ceil(update_interval_hours / 24),
\* the evaluator emits 'episode_aired'.
C13_EpisodeAiredFallThrough ==
    ( /\ ev.done
      /\ ev.subscription.media_type = "tv"
      /\ ev.subscription.notify_on_update
      /\ ~C13_NewEpisodeFired
      /\ ~ev.details.next_episode_to_air.present
         \/ StrptimeOk(ev.details.next_episode_to_air.air_date)
      /\ StrptimeOk(ev.details.last_air_date)
      /\ 0 <= C13_Days
      /\ C13_Days <= (ev.interval + 23) \div 24 )
    => ev.result.notification.type = "episode_aired"

\* The outcome types a subscription of media type mt can yield.
C14_TypesOf(mt) ==
    IF mt = "movie" THEN {"release", "upcoming"}
    ELSE IF mt = "tv" THEN {"new_episode", "episode_aired"}
    ELSE {}

\* Over every subscription, details, time and interval of EvalInputs, a call of
\* the evaluator that returns yields nothing or one outcome of a type of the
\* subscription's media type.  The formula does not depend on the state.
C14_Evaluator ==
    \A i \in EvalInputs :
        LET r == check_for_updates(i.subscription, i.details, i.utcnow, i.interval)
        IN  /\ r.notification.type \in
                   {"none"} \cup C14_TypesOf(i.subscription.media_type)
            /\ r.notification.type \in {"none"} \cup NoteTypes
            /\ r.raised => r.notification = NoNotification

\* What the loop holds and has sent is of a type of the subscription's media
\* type, and no subscription was sent more than one message in one iteration.
C14_Loop ==
    /\ notification.type \in {"none"} \cup NoteTypes
    /\ pc = "send" => notification.type \in C14_TypesOf(subscription.media_type)
    /\ \A s \in SubIds :
          /\ dispatched[s] <= 1
          /\ \A ty \in NoteTypes :
                sent[s][ty] > 0 => ty \in C14_TypesOf(db_subs[s].media_type)

\* C14: _check_for_updates returns nothing or exactly one outcome, of type
\* release or upcoming for a movie and new_episode or episode_aired for a
\* series, and so the Poll Loop dispatches at most one message per subscription
\* per cycle.  (The evaluator's part is state-independent and is evaluated in
\* the states before the first iteration.)
C14_AtMostOneOutcome == (cycle = 0 => C14_Evaluator) /\ C14_Loop

\* Subscription 1 has been sent a message in each of two iterations: one in the
\* present iteration, two in all.
C14_Witness ==
    /\ cycle = 2
    /\ dispatched[1] = 1
    /\ sent[1]["release"] = 2

\* C15: the notification flags gate every outcome: a movie subscription with
\* notify_on_release off and a series subscription with notify_on_update off
\* yield nothing, whatever the details and the time; and the flags are
\* independent: notify_on_update does not change a movie's result, nor
\* notify_on_release a series' result.
C15_FlagsGate ==
    ev.done
    => /\ (ev.subscription.media_type = "movie" /\ ~ev.subscription.notify_on_release)
          => ev.result = Returned(NoNotification)
       /\ (ev.subscription.media_type = "tv" /\ ~ev.subscription.notify_on_update)
          => ev.result = Returned(NoNotification)
       /\ ev.subscription.media_type = "movie"
          => ev.result
               = check_for_updates([ev.subscription EXCEPT !.notify_on_update = ~@],
                                   ev.details, ev.utcnow, ev.interval)
       /\ ev.subscription.media_type = "tv"
          => ev.result
               = check_for_updates([ev.subscription EXCEPT !.notify_on_release = ~@],
                                   ev.details, ev.utcnow, ev.interval)

\* A movie released today, notify_on_release off and notify_on_update on:
\* nothing is returned.
C15_Witness ==
    /\ ev.done
    /\ ev.subscription.media_type = "movie"
    /\ ~ev.subscription.notify_on_release
    /\ ev.subscription.notify_on_update
    /\ ev.details.status = "Released"
    /\ ev.details.release_date = Ymd(1, 31)
    /\ ev.utcnow = At(1, 31, 12)
    /\ ev.result = Returned(NoNotification)

(* ------------------------------------------------------------------ *)
(* Properties of the TMDB client                                       *)
(* ------------------------------------------------------------------ *)

\* The tasks to which acquire has returned.
Admitted == {t \in Tasks : task[t].completed # Null}

\* The tasks of the clients cs to which acquire returned in the window of
\* length period that starts at tick w.
AdmittedIn(cs, w) ==
    {t \in Admitted : /\ ClientOf(t) \in cs
                      /\ w <= task[t].completed
                      /\ task[t].completed < w + PeriodTicks(limiter[ClientOf(t)])}

\* C16: for one TMDBRateLimiter(rate, period) shared by concurrent callers, the
\* number of acquire() calls that complete within any window of length period
\* never exceeds rate.
C16_RateLimit ==
    \A c \in Clients : \A w \in 0 .. MaxClock :
        Cardinality(AdmittedIn({c}, w)) <= limiter[c].rate

\* The callers of the limiter of client c that took its lock at tick 0, when
\* the bucket is full and no time has passed since its creation.
BackToBack(c) == {t \in Tasks : ClientOf(t) = c /\ task[t].entered = 0}

\* C17: from a full bucket, of rate + 1 acquisitions issued back to back the
\* first rate return without sleeping and the (rate+1)-th sleeps for
\* period / rate seconds (OneRequest ticks): more than zero and no more than
\* the period.
C17_BurstThenSleep ==
    \A c \in Clients : \A t \in BackToBack(c) :
        LET l == limiter[c]
        IN  /\ task[t].seq \in 1 .. l.rate + 1
            /\ task[t].seq <= l.rate
               => /\ task[t].sleep_time = 0
                  /\ task[t].pc # "sleeping"
                  /\ task[t].completed = 0
            /\ task[t].seq = l.rate + 1
               => /\ task[t].sleep_time = OneRequest(l)
                  /\ task[t].sleep_time > 0
                  /\ task[t].sleep_time <= PeriodTicks(l)
                  /\ task[t].completed # Null => task[t].completed >= OneRequest(l)

\* With rate = 2, the third back-to-back caller has slept its period / rate and
\* acquire has returned to it, the first two having been admitted at once.
C17_Witness ==
    /\ limiter["subscriptions"].rate = 2
    /\ limiter["subscriptions"].period = 2
    /\ BackToBack("subscriptions") = {1, 2, 3}
    /\ task[1].completed = 0 /\ task[2].completed = 0
    /\ task[3].seq = 3
    /\ task[3].sleep_time = 2
    /\ task[3].pc = "acquired"

\* The step that issues the GET of a task is taken after acquire returned to it.
C18_Step ==
    \A t \in Tasks :
        (task[t].pc # "get" /\ task'[t].pc = "get")
        => /\ task[t].pc = "acquired"
           /\ task[t].completed # Null
           /\ limiter' = limiter

\* C18: in TMDBClient._request the limiter's acquire() has completed before the
\* HTTP GET is issued, whatever public operation made the call: no GET without
\* one preceding acquisition on the client's limiter.
C18_EveryCallGated ==
    /\ [](\A t \in Tasks :
             task[t].pc = "get"
             => /\ task[t].completed # Null
                /\ task[t].seq >= 1
                /\ task[t].op = OpOf(t))
    /\ [](\A c \in Clients :
             Cardinality({t \in Tasks : ClientOf(t) = c /\ task[t].pc = "get"})
               <= limiter[c].entries)
    /\ [][C18_Step]_vars

\* Calls of get_movie_details, get_tv_details and search_multi have all issued
\* their GET, one of them after sleeping in acquire.
C18_Witness ==
    /\ \A t \in Tasks : task[t].pc = "get"
    /\ \E t \in Tasks : task[t].sleep_time > 0
    /\ {task[t].op : t \in Tasks}
         = {"get_movie_details", "get_tv_details", "search_multi"}

\* C19: the rate limiter is one gate shared by the process: the calls of all
\* the bot's clients together draw from one budget, so the calls admitted in
\* any window of length period, over all clients, number at most rate.
C19_SharedBudget ==
    \A w \in 0 .. MaxClock :
        \A c \in Clients : Cardinality(AdmittedIn(Clients, w)) <= limiter[c].rate

(* ------------------------------------------------------------------ *)
(* Properties of the dispatcher                                        *)
(* ------------------------------------------------------------------ *)

\* The configured notification channel of the call is set and resolves.
C20_ConfiguredResolves ==
    /\ sn.guild_data.notification_channel_id # Unset
    /\ sn.env.channel_resolves

\* C20: the dispatcher sends to the configured notification channel when it is
\* set and resolves; when it is unset, or set but no longer resolvable, it falls
\* back to the guild's system channel; only when neither resolves does it log a
\* warning and send nothing.
C20_DestinationFallback ==
    sn.done
    => /\ C20_ConfiguredResolves => sn.result.channel = "configured"
       /\ (~C20_ConfiguredResolves /\ sn.env.system_channel)
          => sn.result.channel = "system"
       /\ (~C20_ConfiguredResolves /\ ~sn.env.system_channel)
          => (sn.result.channel = "none" /\ ~sn.result.delivered)
       /\ sn.result.channel = "none"
          => (~C20_ConfiguredResolves /\ ~sn.env.system_channel)

(* ------------------------------------------------------------------ *)
(* Further properties of the TMDB client                               *)
(* ------------------------------------------------------------------ *)

\* What a step of acquire does to the allowance of the caller's limiter.
C25_Step ==
    \A t \in Tasks :
        LET c == ClientOf(t)
            l == limiter[c]
            refilled == Refill(l, clock)
        IN  /\ (task[t].pc = "lock" /\ task'[t].pc # "lock")
               => /\ 0 <= refilled
                  /\ refilled <= l.rate * l.period
                  /\ refilled >= l.allowance
            /\ (task[t].pc = "lock" /\ task'[t].pc = "acquired")
               => /\ refilled >= OneRequest(l)
                  /\ limiter'[c].allowance = refilled - OneRequest(l)
            /\ (task[t].pc = "lock" /\ task'[t].pc = "sleeping")
               => /\ refilled < OneRequest(l)
                  /\ limiter'[c].holder = t
            /\ (task[t].pc = "sleeping" /\ task'[t].pc = "acquired")
               => /\ limiter'[c].allowance = 0
                  /\ limiter'[c].holder = 0

\* C25: whenever the lock of a TMDBRateLimiter is free, 0 <= allowance <= rate;
\* the refill is capped at rate, an immediate admission subtracts exactly one
\* request and only when allowance >= 1, and a delayed admission resets the
\* allowance to 0.
C25_BudgetBounds ==
    /\ [](\A c \in Clients :
             limiter[c].holder = 0
             => /\ 0 <= limiter[c].allowance
                /\ limiter[c].allowance <= limiter[c].rate * limiter[c].period)
    /\ [][C25_Step]_vars

\* After a delayed admission the allowance is 0 and the lock is free; time has
\* passed and another caller was admitted at once before.
C25_Witness ==
    /\ clock >= 2
    /\ limiter["subscriptions"].holder = 0
    /\ limiter["subscriptions"].allowance = 0
    /\ task[1].pc = "acquired" /\ task[1].sleep_time = 0 /\ task[1].entered = 2
    /\ task[2].pc = "acquired" /\ task[2].sleep_time > 0

\* C28: token conservation: from a full bucket, the acquire() calls of one
\* limiter that have completed by elapsed time t number at most
\* rate + t * (rate / period); the time a caller sleeps in acquire() is not
\* credited again as refill to the next caller.  (In ticks and units of
\* allowance: period * completed <= rate * period + t.)
C28_TokenConservation ==
    \A c \in Clients : \A t \in 0 .. MaxClock :
        limiter[c].period
          * Cardinality({u \in Admitted : ClientOf(u) = c /\ task[u].completed <= t})
        <= limiter[c].rate * limiter[c].period + t

(* ------------------------------------------------------------------ *)
(* Further properties of the evaluator                                 *)
(* ------------------------------------------------------------------ *)

\* C29: 'New Episode Tomorrow!' is accurate: whenever the evaluator returns a
\* new_episode outcome at utcnow, the episode's air_date is the calendar day
\* that follows the calendar day of utcnow, at every time of day.
C29_TomorrowIsTomorrow ==
    (ev.done /\ ev.result.notification.type = "new_episode")
    => Days(Strptime(ev.result.notification.date)) = Days(ev.utcnow) + 1

(* ------------------------------------------------------------------ *)
(* Further properties of the Poll Loop                                 *)
(* ------------------------------------------------------------------ *)

\* The stages of the handling of one subscription after its staleness check.
C26_Handling == {"fetch", "send", "write"}

\* Every event of a subscription is an event of the one subscription the loop
\* stands at, and the stages follow one another in the order fetch, evaluate,
\* dispatch, write, at one position of the lists.
C26_Step ==
    /\ \A s \in SubIds :
          /\ fetches'[s] # fetches[s]
             => /\ pc = "sub" /\ pc' = "fetch"
                /\ subscription.id = s
                /\ fetches'[s] = fetches[s] + 1
          /\ sent'[s] # sent[s]
             => /\ pc = "send" /\ pc' = "write"
                /\ subscription.id = s
                /\ notification.type # "none"
          /\ db_subs'[s] # db_subs[s]
             => /\ pc = "write" /\ pc' = "sub"
                /\ subscription.id = s
                /\ si' = si + 1
    /\ pc' = "fetch" => pc \in {"sub", "fetch"}
    /\ pc' = "send" => pc \in {"fetch", "send"}
    /\ (pc = "fetch" /\ pc' = "send") => notification'.type # "none"
    /\ (pc = "fetch" /\ pc' = "write") => notification'.type = "none"
    /\ pc' = "write" => pc \in C26_Handling
    /\ (pc \in C26_Handling /\ pc' \in C26_Handling)
       => /\ si' = si /\ gi' = gi
          /\ subscriptions' = subscriptions /\ guilds' = guilds
    /\ (pc # "idle" /\ pc' # "idle")
       => /\ gi' >= gi
          /\ gi' = gi => si' >= si

\* C26: within a cycle at most one subscription is being handled at any time:
\* guilds, and subscriptions within a guild, are handled strictly one after
\* another, never two metadata requests in flight; and for each handled
\* subscription the events occur in the order fetch, evaluate, dispatch attempt
\* (if any), last_checked write.
C26_Sequential ==
    /\ [](pc \in C26_Handling
          => /\ gi \in 1 .. Len(guilds)
             /\ si \in 1 .. Len(subscriptions)
             /\ subscription.guild_id = guild_data.id
             /\ fetches[subscription.id] >= 1
             /\ \A i \in 1 .. Len(subscriptions) :
                   subscriptions[i].id = subscription.id => i = si)
    /\ [][C26_Step]_vars

\* Subscription 1 was fetched, sent its message and written, and only then the
\* details of subscription 2 of the same guild were requested.
C26_Witness ==
    /\ cycle = 1
    /\ pc = "fetch"
    /\ subscription.id = 2
    /\ outcome[1] = "written"
    /\ dispatched[1] = 1
    /\ fetches[1] = 1 /\ fetches[2] = 1

\* C27: every cycle evaluates every eligible subscription: when cycles start
\* exactly update_interval apart and every fetch and write succeeds, a
\* subscription evaluated in one cycle is not staleness-skipped in the next
\* because its last_checked was written later inside the earlier cycle.
C27_NoSkipWhenSpaced ==
    Spaced => \A s \in SubIds : fetches[s] >= 1 => outcome[s] # "skipped"

(* ------------------------------------------------------------------ *)
(* Further properties of the dispatcher                                *)
(* ------------------------------------------------------------------ *)

\* C21: a dispatched message carries a role mention if and only if the guild's
\* notification_role_id is set and Config.NOTIFICATION_PING_ROLE is true and the
\* role resolves in the guild; in every other case the message is sent with no
\* mention, and is still sent.
C21_RoleMention ==
    sn.done
    => /\ sn.result.delivered
          => (sn.result.mention
              <=> /\ sn.guild_data.notification_role_id # Unset
                  /\ sn.env.ping_role
                  /\ sn.env.role_resolves)
       /\ sn.result.delivered <=> (sn.result.channel # "none" /\ sn.env.send_ok)
       /\ ~sn.result.raised

\* With the default of the flag, a guild with a role set whose role no longer
\* resolves is sent the message without a mention.
C21_Witness ==
    /\ sn.done
    /\ sn.guild_data.notification_role_id = ROLE_ID
    /\ sn.env.ping_role = NOTIFICATION_PING_ROLE
    /\ ~sn.env.role_resolves
    /\ sn.result.delivered
    /\ ~sn.result.mention

(* ------------------------------------------------------------------ *)
(* Poll Loop, with rows unsubscribed and the cog unloaded as it runs   *)
(* ------------------------------------------------------------------ *)

\* The store without the row of the given id.
DeleteRow(db, id) == [i \in DOMAIN db \ {id} |-> db[i]]

\* Database.remove_subscription finds the row of a subscription and commits its
\* deletion while the task of the loop stands at an await of its handling of
\* the list that the row was loaded into.
Unsubscribe(s) ==
    /\ pc \in {"sub", "fetch", "send", "write"}
    /\ \E k \in 1 .. Len(subscriptions) : subscriptions[k].id = s
    /\ s \in DOMAIN db_subs
    /\ db_subs' = DeleteRow(db_subs, s)
    /\ UNCHANGED <<now, update_interval_hours, db_guilds, catalog, loopVars,
                   histVars, ev, callVars>>

\* AutoUpdate.cog_unload: update_check.cancel() cancels the task of the loop.
\* The task receives CancelledError at the await where it stands; the handlers
\* of update_check catch Exception, which CancelledError is not, so the
\* iteration ends there.
CogUnload ==
    /\ pc # "cancelled"
    /\ pc' = "cancelled"
    /\ exc' = "cancelled"
    /\ UNCHANGED <<now, update_interval_hours, db_guilds, db_subs, catalog,
                   next_iteration, guilds, gi, subscriptions, si, notification,
                   cycle, faults, elapsed, fetches, sent, dispatched, outcome,
                   ev, callVars>>

\* Both guilds enabled; a film released today and a series with an episode
\* tomorrow in guild 1, a film released in a few days in guild 2.
RaceInit ==
    /\ now = StartTime
    /\ next_iteration = StartTime
    /\ update_interval_hours = UPDATE_INTERVAL_HOURS
    /\ db_guilds = [g \in GuildIds |->
                      IF g = 1 THEN GuildRow(g, TRUE, CHANNEL_ID, ROLE_ID)
                      ELSE GuildRow(g, TRUE, Unset, Unset)]
    /\ LET sc == [s \in SubIds |->
                    IF s = 1 THEN ReleasedToday
                    ELSE IF s = 2 THEN EpisodeTomorrow ELSE UpcomingSoon]
       IN  /\ db_subs = [s \in SubIds |->
                           SubRow(s, sc[s].media_type, sc[s].nr, sc[s].nu)]
           /\ catalog = [s \in SubIds |-> sc[s].details]
    /\ LoopInit
    /\ ev = NoEval
    /\ CallInit

\* The steps of the loop, the hours spent inside an iteration left aside (they
\* play no part in these races), with the unsubscriptions and the unloading.
RaceNext ==
    \/ StartCycle
    \/ StartCycleFails
    \/ Restart
    \/ CycleEnd
    \/ GuildMissing
    \/ LoadSubscriptionsFails
    \/ LoadSubscriptions
    \/ GuildDone
    \/ SkipStale
    \/ RequestDetails
    \/ FetchFails
    \/ FetchReturns
    \/ Send
    \/ WriteLastChecked
    \/ WriteFails
    \/ \E s \in SubIds : Unsubscribe(s)
    \/ CogUnload

RaceSpec == RaceInit /\ [][RaceNext]_vars

\* C24: when the row of the subscription being handled has been deleted since
\* the list was loaded, the step that ends its write of last_checked leaves the
\* store as it was (the row is not recreated, no other row changes), logs at
\* most the write's own error, and takes the loop to the next subscription of
\* the same list.
C24_Step ==
    (/\ pc = "write"
     /\ subscription.id \notin DOMAIN db_subs
     /\ pc' \notin {"write", "cancelled"})
    => /\ db_subs' = db_subs
       /\ pc' = "sub"
       /\ si' = si + 1
       /\ gi' = gi
       /\ subscriptions' = subscriptions
       /\ exc' \in {"none", "write"}

C24_DeletedRowWriteIsNoOp == [][C24_Step]_vars

\* The write for the deleted row 1 matched nothing, the row is still absent and
\* the loop has gone on to request the details of subscription 2.
C24_Witness ==
    /\ outcome[1] = "unmatched"
    /\ 1 \notin DOMAIN db_subs
    /\ 2 \in DOMAIN db_subs
    /\ pc = "fetch"
    /\ subscription.id = 2

\* C30: a notification is delivered only for a subscription whose row is in the
\* store at the time of the delivery.
C30_Step ==
    \A s \in SubIds : sent'[s] # sent[s] => s \in DOMAIN db_subs

C30_NoNotificationAfterUnsubscribe == [][C30_Step]_vars

\* C22: when the task has been cancelled, every subscription a notification was
\* delivered for in the iteration has had its write of last_checked carried out
\* (it changed the row, matched no row, or raised).
C22_NoDispatchWithoutWrite ==
    pc = "cancelled"
    => \A s \in SubIds :
          dispatched[s] > 0 => outcome[s] \in {"written", "unmatched", "write"}

(* ------------------------------------------------------------------ *)
(* The /subscribe and /unsubscribe commands on the store               *)
(* ------------------------------------------------------------------ *)

\* The items the commands are invoked for: one TMDB id, as a film and as a series.
TmdbIds == {601}
MediaTypes == {"movie", "tv"}

\* The row has the key (guild_id, tmdb_id, media_type).
HasKey(row, guild_id, tmdb_id, media_type) ==
    /\ row.guild_id = guild_id
    /\ row.tmdb_id = tmdb_id
    /\ row.media_type = media_type

\* Database.add_subscription: a new row, with the next id and the defaults of
\* the columns, is added and committed.  Nothing is looked up first, and the
\* table declares no unique constraint.
add_subscription(db, guild_id, tmdb_id, media_type) ==
    LET id == MaxId(db) + 1
    IN  [i \in DOMAIN db \cup {id} |->
           IF i = id
           THEN [id |-> id, guild_id |-> guild_id, tmdb_id |-> tmdb_id,
                 media_type |-> media_type, last_checked |-> Null,
                 notify_on_release |-> TRUE, notify_on_update |-> TRUE]
           ELSE db[i]]

\* An empty store, the loop idle, and no command in progress.
StoreInit ==
    /\ now = StartTime
    /\ next_iteration = StartTime
    /\ update_interval_hours = UPDATE_INTERVAL_HOURS
    /\ db_guilds = [g \in GuildIds |-> GuildRow(g, TRUE, Unset, Unset)]
    /\ db_subs = << >>
    /\ catalog = [s \in SubIds |-> ReleasedToday.details]
    /\ LoopInit
    /\ ev = NoEval
    /\ CallInit

storeFrame == <<now, update_interval_hours, db_guilds, catalog, loopVars,
                histVars, ev, sn, clock, limiter, task>>

\* /subscribe is invoked in a guild and the user selects an item of the search
\* results; the command goes on to `await self.bot.db.get_subscriptions(...)`.
SubscribeBegins(c) ==
    /\ cmd[c].pc = "idle"
    /\ \E g \in GuildIds, t \in TmdbIds, m \in MediaTypes :
          cmd' = [cmd EXCEPT ![c] = [IdleCommand EXCEPT !.pc = "check",
                                        !.kind = "subscribe", !.guild_id = g,
                                        !.tmdb_id = t, !.media_type = m]]
    /\ UNCHANGED <<db_subs, storeFrame>>

\* get_subscriptions returns, and the command looks for the item in the list:
\* "Already Subscribed" and return, or on to `await add_subscription(...)`.
SubscribeChecks(c) ==
    /\ cmd[c].pc = "check"
    /\ LET existing == get_subscriptions(cmd[c].guild_id)
           already == \E k \in 1 .. Len(existing) :
                         /\ existing[k].tmdb_id = cmd[c].tmdb_id
                         /\ existing[k].media_type = cmd[c].media_type
       IN  cmd' = IF already
                  THEN [cmd EXCEPT ![c].pc = "done", ![c].result = "already"]
                  ELSE [cmd EXCEPT ![c].pc = "add"]
    /\ UNCHANGED <<db_subs, storeFrame>>

\* add_subscription commits the new row and the command confirms.
SubscribeAdds(c) ==
    /\ cmd[c].pc = "add"
    /\ db_subs' = add_subscription(db_subs, cmd[c].guild_id, cmd[c].tmdb_id,
                                   cmd[c].media_type)
    /\ cmd' = [cmd EXCEPT ![c].pc = "done", ![c].result = "subscribed"]
    /\ UNCHANGED storeFrame

\* /unsubscribe is invoked in a guild: the command lists the guild's
\* subscriptions, the user selects one of them and confirms, and the command
\* goes on to `await self.bot.db.remove_subscription(...)`.
UnsubscribeBegins(c) ==
    /\ cmd[c].pc = "idle"
    /\ \E g \in GuildIds :
          LET subscriptions_ == get_subscriptions(g)
          IN  \E k \in 1 .. Len(subscriptions_) :
                 cmd' = [cmd EXCEPT ![c] =
                           [IdleCommand EXCEPT !.pc = "select",
                               !.kind = "unsubscribe", !.guild_id = g,
                               !.tmdb_id = subscriptions_[k].tmdb_id,
                               !.media_type = subscriptions_[k].media_type]]
    /\ UNCHANGED <<db_subs, storeFrame>>

\* remove_subscription selects the rows of the key; scalar_one_or_none() returns
\* the row, or None when there is none (the command reports a failure), or
\* raises MultipleResultsFound when there are several (the command's handler
\* reports an error).
UnsubscribeSelects(c) ==
    /\ cmd[c].pc = "select"
    /\ LET rows == {i \in DOMAIN db_subs :
                       HasKey(db_subs[i], cmd[c].guild_id, cmd[c].tmdb_id,
                              cmd[c].media_type)}
       IN  cmd' = IF rows = {}
                  THEN [cmd EXCEPT ![c].pc = "done", ![c].result = "not_found"]
                  ELSE IF Cardinality(rows) > 1
                  THEN [cmd EXCEPT ![c].pc = "done", ![c].result = "error"]
                  ELSE [cmd EXCEPT ![c].pc = "delete",
                                   ![c].found = CHOOSE i \in rows : TRUE]
    /\ UNCHANGED <<db_subs, storeFrame>>

\* remove_subscription deletes the row it selected and commits.
UnsubscribeDeletes(c) ==
    /\ cmd[c].pc = "delete"
    /\ db_subs' = DeleteRow(db_subs, cmd[c].found)
    /\ cmd' = [cmd EXCEPT ![c].pc = "done", ![c].result = "removed"]
    /\ UNCHANGED storeFrame

StoreNext ==
    \E c \in Commands :
        \/ SubscribeBegins(c)
        \/ SubscribeChecks(c)
        \/ SubscribeAdds(c)
        \/ UnsubscribeBegins(c)
        \/ UnsubscribeSelects(c)
        \/ UnsubscribeDeletes(c)

StoreSpec == StoreInit /\ [][StoreNext]_vars

\* C23: the store holds at most one subscription row for each
\* (guild_id, tmdb_id, media_type).
C23_UniqueSubscription ==
    \A i, j \in DOMAIN db_subs :
        HasKey(db_subs[i], db_subs[j].guild_id, db_subs[j].tmdb_id,
               db_subs[j].media_type)
        => i = j

============================================================================
